---- MODULE Spec2Model ----
(***************************************************************************)
(* Model of auto_download.py: the dataset downloader download_file, the    *)
(* video downloader download_videos and the entry point main.              *)
(*                                                                         *)
(* Text is modelled as sequences of character codes (ASCII), so that the   *)
(* URL parsing, basename and percent-decoding of download_file are         *)
(* computed character by character, as the library functions compute them. *)
(***************************************************************************)
EXTENDS Integers, Sequences, FiniteSets, TLC

(***************************************************************************)
(* Bounds of the model.                                                    *)
(***************************************************************************)
\* longest last path segment of a URL (in characters or escapes)
MaxSegLen == 3
\* length of the VIDEO_URLS and DATASET_URLS lists of the model
NumVideos == 2
NumDatasets == 2
\* longest archive body (in bytes) and largest chunk iter_content yields
\* (the 8 KiB of the code, scaled)
MaxBody == 2
MaxChunkLen == 2
\* most empty chunks iter_content yields in one response
MaxEmpty == 1
\* number of times the script is run one after the other
MaxRuns == 2

(***************************************************************************)
(* Characters.                                                             *)
(***************************************************************************)
Ascii ==
  [ space |-> 32, hash |-> 35, percent |-> 37, dot |-> 46, slash |-> 47,
    colon |-> 58, semi |-> 59, query |-> 63, d |-> 100, h |-> 104,
    n |-> 110, p |-> 112, s |-> 115, t |-> 116, r |-> 114, A |-> 65 ]

\* index of the first occurrence of c in s at or after position from; 0 if none
RECURSIVE Find(_, _, _)
Find(s, c, from) ==
  IF from > Len(s) THEN 0
  ELSE IF s[from] = c THEN from
  ELSE Find(s, c, from + 1)

\* index of the last occurrence of c in s; 0 if none
RECURSIVE RFindFrom(_, _, _)
RFindFrom(s, c, i) ==
  IF i = 0 THEN 0
  ELSE IF s[i] = c THEN i
  ELSE RFindFrom(s, c, i - 1)

RFind(s, c) == RFindFrom(s, c, Len(s))

Slice(s, from, to) == IF from > to THEN << >> ELSE SubSeq(s, from, to)

(***************************************************************************)
(* urllib.parse.urlparse(url), as line 63 calls it: the scheme up to the   *)
(* first ':', the netloc after '//' up to the first of '/', '?', '#', then *)
(* the fragment after the first '#', the query after the first '?', and    *)
(* the parameters of the last path segment after its first ';'.            *)
(***************************************************************************)
IsAlpha(c) == (c >= 65 /\ c <= 90) \/ (c >= 97 /\ c <= 122)
IsSchemeChar(c) == IsAlpha(c) \/ (c >= 48 /\ c <= 57) \/ c \in {43, 45, 46}

\* the schemes of urllib.parse.uses_params the model's URLs can carry
UsesParams == { << >>, <<104, 116, 116, 112>>, <<104, 116, 116, 112, 115>> }

SplitScheme(url) ==
  LET i == Find(url, Ascii.colon, 1) IN
  IF i > 1 /\ IsAlpha(url[1]) /\ \A k \in 1..(i - 1) : IsSchemeChar(url[k])
  THEN [scheme |-> Slice(url, 1, i - 1), rest |-> Slice(url, i + 1, Len(url))]
  ELSE [scheme |-> << >>, rest |-> url]

\* _splitnetloc: the netloc ends at the first of '/', '?', '#' after the '//'
SplitNetloc(rest) ==
  IF Len(rest) >= 2 /\ rest[1] = Ascii.slash /\ rest[2] = Ascii.slash
  THEN LET ends == { Find(rest, c, 3) : c \in {Ascii.slash, Ascii.query, Ascii.hash} } \ {0}
           delim == IF ends = {} THEN Len(rest) + 1
                    ELSE CHOOSE e \in ends : \A f \in ends : e <= f
       IN [netloc |-> Slice(rest, 3, delim - 1), rest |-> Slice(rest, delim, Len(rest))]
  ELSE [netloc |-> << >>, rest |-> rest]

\* s.split(c, 1): the part before the first c and the part after it
SplitFirst(s, c) ==
  LET i == Find(s, c, 1) IN
  IF i = 0 THEN [head |-> s, tail |-> << >>]
  ELSE [head |-> Slice(s, 1, i - 1), tail |-> Slice(s, i + 1, Len(s))]

\* _splitparams: the first ';' after the last '/' starts the parameters
SplitParams(path) ==
  LET from == IF Find(path, Ascii.slash, 1) # 0 THEN RFind(path, Ascii.slash) ELSE 1
      i == Find(path, Ascii.semi, from)
  IN IF i = 0 THEN [path |-> path, params |-> << >>]
     ELSE [path |-> Slice(path, 1, i - 1), params |-> Slice(path, i + 1, Len(path))]

urlparse(url) ==
  LET sch == SplitScheme(url)
      loc == SplitNetloc(sch.rest)
      frag == SplitFirst(loc.rest, Ascii.hash)
      qry == SplitFirst(frag.head, Ascii.query)
      par == IF sch.scheme \in UsesParams
             THEN SplitParams(qry.head)
             ELSE [path |-> qry.head, params |-> << >>]
  IN [scheme |-> sch.scheme, netloc |-> loc.netloc, path |-> par.path,
      params |-> par.params, query |-> qry.tail, fragment |-> frag.tail]

(***************************************************************************)
(* os.path.basename (POSIX): what follows the last '/'.                    *)
(***************************************************************************)
basename(p) == Slice(p, RFind(p, Ascii.slash) + 1, Len(p))

(***************************************************************************)
(* urllib.parse.unquote: every '%' followed by two hexadecimal digits is   *)
(* replaced by the character with that code; any other '%' is kept.  The   *)
(* model's URLs escape ASCII characters only.                              *)
(***************************************************************************)
IsHex(c) == (c >= 48 /\ c <= 57) \/ (c >= 65 /\ c <= 70) \/ (c >= 97 /\ c <= 102)
HexVal(c) == IF c <= 57 THEN c - 48 ELSE IF c <= 70 THEN c - 55 ELSE c - 87

RECURSIVE UnquoteFrom(_, _)
UnquoteFrom(s, i) ==
  IF i > Len(s) THEN << >>
  ELSE IF s[i] = Ascii.percent /\ i + 2 <= Len(s) /\ IsHex(s[i + 1]) /\ IsHex(s[i + 2])
       THEN <<16 * HexVal(s[i + 1]) + HexVal(s[i + 2])>> \o UnquoteFrom(s, i + 3)
       ELSE <<s[i]>> \o UnquoteFrom(s, i + 1)

\* the same without decoding: the segment as the URL spells it
unquoteKept(s) == s

unquote(s) == UnquoteFrom(s, 1)

\* "downloaded_file"
FallbackName ==
  <<100, 111, 119, 110, 108, 111, 97, 100, 101, 100, 95, 102, 105, 108, 101>>

\* "downloaded_datasets"
DatasetFolder ==
  <<100, 111, 119, 110, 108, 111, 97, 100, 101, 100, 95, 100, 97, 116, 97,
    115, 101, 116, 115>>

\* line 64: unquote(os.path.basename(parsed.path)) or "downloaded_file"
FileName(url) ==
  LET name == unquote(basename(urlparse(url).path)) IN
  IF name = << >> THEN FallbackName ELSE name

\* os.path.join(a, b) (POSIX): an absolute b discards a
join(a, b) ==
  IF Len(b) > 0 /\ b[1] = Ascii.slash THEN b
  ELSE IF a = << >> \/ a[Len(a)] = Ascii.slash THEN a \o b
  ELSE a \o <<Ascii.slash>> \o b

\* line 65
DestPath(url, dest_folder) == join(dest_folder, FileName(url))

(***************************************************************************)
(* The URLs download_file is given.  A URL is "https://h", an optional     *)
(* path (directories, then a last segment of plain and percent-escaped     *)
(* characters), optional parameters of the last segment, an optional query *)
(* and an optional fragment.                                               *)
(***************************************************************************)
\* "https://h"
UrlPrefix == <<104, 116, 116, 112, 115, 58, 47, 47, 104>>

HexDigit(v) == IF v < 10 THEN 48 + v ELSE 55 + v

\* a character of a segment: written as it is, or percent-escaped
Atoms ==
  { [esc |-> FALSE, c |-> Ascii.n], [esc |-> FALSE, c |-> Ascii.dot],
    [esc |-> TRUE, c |-> Ascii.slash], [esc |-> TRUE, c |-> Ascii.space],
    [esc |-> TRUE, c |-> Ascii.percent] }

RenderAtom(a) ==
  IF a.esc THEN <<Ascii.percent, HexDigit(a.c \div 16), HexDigit(a.c % 16)>>
  ELSE <<a.c>>

RECURSIVE RenderSegment(_)
RenderSegment(seg) ==
  IF seg = << >> THEN << >>
  ELSE RenderAtom(Head(seg)) \o RenderSegment(Tail(seg))

Segments == UNION { [1..k -> Atoms] : k \in 0..MaxSegLen }

\* the directories before the last segment: none, "/p", "/p;n/r"
DirPrefixes ==
  { << >>, <<Ascii.slash, Ascii.p>>,
    <<Ascii.slash, Ascii.p, Ascii.semi, Ascii.n, Ascii.slash, Ascii.r>> }

\* ";n", "?d", "?d/n", "#/n"
ParamTails == { << >>, <<Ascii.semi, Ascii.n>> }
QueryTails == { << >>, <<Ascii.query, Ascii.d>>,
                <<Ascii.query, Ascii.d, Ascii.slash, Ascii.n>> }
FragmentTails == { << >>, <<Ascii.hash, Ascii.slash, Ascii.n>> }

UrlParts ==
  { [dir |-> d, hasPath |-> hp, last |-> l, params |-> pt, query |-> qt, fragment |-> ft] :
      d \in DirPrefixes, hp \in BOOLEAN, l \in Segments,
      pt \in ParamTails, qt \in QueryTails, ft \in FragmentTails }

ComposeUrl(parts) ==
  UrlPrefix
    \o (IF parts.hasPath
        THEN parts.dir \o <<Ascii.slash>> \o RenderSegment(parts.last)
        ELSE << >>)
    \o parts.params \o parts.query \o parts.fragment

\* a URL with no path has no directories and no last segment
WellFormedParts(parts) ==
  parts.hasPath \/ (parts.dir = << >> /\ parts.last = << >>)

\* the DATASET_URLS of the model: "https://h/r/A?d", "https://h/r/B?d", ...
DATASET_URLS ==
  [ j \in 1..NumDatasets |->
      UrlPrefix \o <<Ascii.slash, Ascii.r, Ascii.slash, Ascii.A + j - 1,
                     Ascii.query, Ascii.d>> ]

NoParts ==
  [dir |-> << >>, hasPath |-> FALSE, last |-> << >>, params |-> << >>,
   query |-> << >>, fragment |-> << >>]

(***************************************************************************)
(* State.                                                                  *)
(***************************************************************************)
VARIABLES
  parts,        \* the components the URL under test is composed of
  url,          \* download_file: its url argument
  filename,     \* download_file: filename (line 64)
  dest_path,    \* download_file: dest_path (line 65)
  pc,           \* where the process is
  run,          \* how many times the script has been started
  ytAvail,      \* whether `import yt_dlp` succeeds in this environment
  vi,           \* download_videos: index of the URL the loop is at
  dj,           \* main: index of the dataset URL the loop is at
  files,        \* downloaded_datasets: file name -> content
  videoFiles,   \* downloaded_videos: the videos whose output file exists
  attempted,    \* this run: the video URLs ydl.download was called with, in order
  console,      \* this run: number of [WARNING] and [ERROR] lines printed
  calls,        \* this run: the calls main made, in order
  requests,     \* this run: number of requests.get calls issued
  resp,         \* the response being streamed, and download_file's counters
  results,      \* this run: how each download_file call ended, in order
  startFiles,   \* the content of downloaded_datasets when this run started
  interrupted,  \* paths of the files an interrupted run left partially written
  uncaught      \* the exception that ended main, if one did

vars ==
  <<parts, url, filename, dest_path, pc, run, ytAvail, vi, dj, files,
    videoFiles, attempted, console, calls, requests, resp, results, startFiles,
    interrupted, uncaught>>

nameVars == <<parts, url, filename, dest_path>>

\* the archive the server holds for dataset URL j: bytes 1, 2, ..., the
\* first archive MaxBody bytes long and each later one a byte shorter
Archive(j) == [k \in 1..(IF j > MaxBody THEN 0 ELSE MaxBody + 1 - j) |-> k]

\* the statuses a server answers with
Statuses == {200, 404, 500}

NoResp ==
  [status |-> 0, headers |-> << >>, total_size |-> 0, body |-> << >>, pos |-> 0,
   downloaded |-> 0, percents |-> 0, empties |-> 0]

NoConsole == [warnings |-> 0, errors |-> 0]

(***************************************************************************)
(* The checks of the code, one operator each.                              *)
(***************************************************************************)
\* a file system that never reports a file
existsNever(fs, name) == FALSE

\* line 67: os.path.exists(dest_path)
exists(fs, name) == name \in DOMAIN fs

\* a response whose status is never checked
raiseForStatusNever(status) == FALSE

\* line 73: resp.raise_for_status() raises HTTPError for a 4xx or 5xx status
raise_for_status(status) == status >= 400 /\ status < 600

\* line 74: int(resp.headers.get('Content-Length', 0)); headers is << >> or <<n>>
total_size_of(headers) == IF headers = << >> THEN 0 ELSE headers[1]

\* progress shown for every response
showProgressAlways(total) == TRUE

\* lines 82 and 86: `if total_size:`
showProgress(total) == total # 0

\* the exception classes: HTTPError and ConnectionError are both
\* RequestException, which is an Exception; neither is the other
IsInstance(exc, cls) ==
  \/ exc = cls
  \/ cls = "Exception"
  \/ cls = "RequestException" /\ exc \in {"HTTPError", "ConnectionError"}

\* a loop with no handler around download_file
mainCatchesNothing(exc) == FALSE

\* line 152: except requests.HTTPError
mainCatches(exc) == IsInstance(exc, "HTTPError")

\* a loop with no handler around ydl.download
videoCatchesNothing(exc) == FALSE

\* line 119: except Exception
videoCatches(exc) == IsInstance(exc, "Exception")

\* an import that is taken to succeed everywhere
importAlways(avail) == TRUE

\* lines 98-103: `import yt_dlp` succeeds iff the package is installed
importSucceeds(avail) == avail

\* line 80 writing one chunk twice
writeTwice(data, chunk) == data \o chunk \o chunk

\* line 80: file_handle.write(chunk)
write(data, chunk) == data \o chunk

(***************************************************************************)
(* Initial states.  The dataset folder is empty or holds a file, of        *)
(* arbitrary content, under the name of the first dataset URL.             *)
(***************************************************************************)
StaleContent == <<9>>

InitialFolders ==
  { << >>, [q \in {DestPath(DATASET_URLS[1], DatasetFolder)} |-> StaleContent] }

RunStart ==
  /\ pc = "main"
  /\ vi = 1
  /\ dj = 0
  /\ attempted = << >>
  /\ console = NoConsole
  /\ calls = << >>
  /\ requests = 0
  /\ resp = NoResp
  /\ results = << >>
  /\ uncaught = ""

Init ==
  /\ parts = NoParts
  /\ url = << >>
  /\ filename = << >>
  /\ dest_path = << >>
  /\ run = 1
  /\ ytAvail \in BOOLEAN
  /\ files \in InitialFolders
  /\ startFiles = files
  /\ videoFiles = {}
  /\ interrupted = {}
  /\ RunStart

(***************************************************************************)
(* download_videos (lines 91-120).                                         *)
(***************************************************************************)
VideoCall == [fn |-> "download_videos", arg |-> NumVideos]
FileCall(j) == [fn |-> "download_file", arg |-> j]

\* lines 98-103: yt_dlp cannot be imported: a warning, and the function returns
DownloadVideosUnavailable ==
  /\ pc = "main"
  /\ ~importSucceeds(ytAvail)
  /\ calls' = Append(calls, VideoCall)
  /\ console' = [console EXCEPT !.warnings = @ + 1]
  /\ pc' = "datasets"
  /\ dj' = 1
  /\ UNCHANGED <<nameVars, run, ytAvail, vi, files, videoFiles, attempted,
                 requests, resp, results, startFiles, interrupted, uncaught>>

\* lines 105-114: the folder is made and the YoutubeDL object entered
DownloadVideosBegin ==
  /\ pc = "main"
  /\ importSucceeds(ytAvail)
  /\ calls' = Append(calls, VideoCall)
  /\ pc' = "videos"
  /\ UNCHANGED <<nameVars, run, ytAvail, vi, dj, files, videoFiles, attempted,
                 console, requests, resp, results, startFiles, interrupted, uncaught>>

\* what ydl.download([url]) does with one URL: it saves the video or it raises
VideoOutcomes == {"saved", "raised"}

\* lines 115-120: one iteration of the loop
DownloadVideo(outcome) ==
  /\ pc = "videos"
  /\ vi <= NumVideos
  /\ attempted' = Append(attempted, [v |-> vi, outcome |-> outcome])
  /\ videoFiles' = IF outcome = "saved" THEN videoFiles \cup {vi} ELSE videoFiles
  /\ IF outcome = "raised" /\ ~videoCatches("DownloadError")
     THEN /\ pc' = "crashed"
          /\ uncaught' = "DownloadError"
          /\ UNCHANGED <<vi, dj, console>>
     ELSE /\ console' = IF outcome = "raised"
                        THEN [console EXCEPT !.errors = @ + 1] ELSE console
          /\ vi' = vi + 1
          /\ pc' = IF vi = NumVideos THEN "datasets" ELSE "videos"
          /\ dj' = IF vi = NumVideos THEN 1 ELSE dj
          /\ UNCHANGED uncaught
  /\ UNCHANGED <<nameVars, run, ytAvail, files, calls, requests, resp, results,
                 startFiles, interrupted>>

(***************************************************************************)
(* download_file (lines 49-89), called by main's loop (lines 149-153).     *)
(***************************************************************************)
Result(j, outcome) == [j |-> j, outcome |-> outcome]

\* main's loop goes on to the next URL, or main returns
Advance ==
  /\ dj' = dj + 1
  /\ pc' = IF dj = NumDatasets THEN "exited" ELSE "datasets"

\* lines 63-65 for the URL the loop is at
Called ==
  /\ pc = "datasets"
  /\ dj <= NumDatasets
  /\ url' = DATASET_URLS[dj]
  /\ filename' = FileName(DATASET_URLS[dj])
  /\ dest_path' = DestPath(DATASET_URLS[dj], DatasetFolder)
  /\ calls' = Append(calls, FileCall(dj))
  /\ UNCHANGED parts

\* an exception leaves download_file: main's handler logs it and the loop goes
\* on, or the exception leaves main
Raise(exc) ==
  /\ results' = Append(results, Result(dj, exc))
  /\ IF mainCatches(exc)
     THEN /\ console' = [console EXCEPT !.errors = @ + 1]
          /\ Advance
          /\ UNCHANGED uncaught
     ELSE /\ pc' = "crashed"
          /\ uncaught' = exc
          /\ UNCHANGED <<dj, console>>

\* lines 67-69: the file is there
FileSkip ==
  /\ Called
  /\ exists(files, dest_path')
  /\ results' = Append(results, Result(dj, "skipped"))
  /\ Advance
  /\ UNCHANGED <<run, ytAvail, vi, files, videoFiles, attempted, console, requests,
                 resp, startFiles, interrupted, uncaught>>

\* lines 72-73: the server answers with an error status
FileHTTPError(status) ==
  /\ Called
  /\ ~exists(files, dest_path')
  /\ raise_for_status(status)
  /\ requests' = requests + 1
  /\ resp' = [NoResp EXCEPT !.status = status]
  /\ Raise("HTTPError")
  /\ UNCHANGED <<run, ytAvail, vi, files, videoFiles, attempted, startFiles,
                 interrupted>>

\* line 72: no answer at all (connection refused, timeout)
FileConnectFail ==
  /\ Called
  /\ ~exists(files, dest_path')
  /\ requests' = requests + 1
  /\ resp' = NoResp
  /\ Raise("ConnectionError")
  /\ UNCHANGED <<run, ytAvail, vi, files, videoFiles, attempted, startFiles,
                 interrupted>>

\* lines 72-76: the status passes, the file is opened with 'wb'
FileOpen(status, hasLength) ==
  /\ Called
  /\ ~exists(files, dest_path')
  /\ ~raise_for_status(status)
  /\ requests' = requests + 1
  /\ LET body == Archive(dj)
         headers == IF hasLength THEN <<Len(body)>> ELSE << >>
     IN resp' = [status |-> status, headers |-> headers,
                 total_size |-> total_size_of(headers), body |-> body, pos |-> 0,
                 downloaded |-> 0, percents |-> 0, empties |-> 0]
  /\ files' = [q \in DOMAIN files \cup {dest_path'} |-> IF q = dest_path' THEN << >> ELSE files[q]]
  /\ pc' = "streaming"
  /\ UNCHANGED <<run, ytAvail, vi, dj, videoFiles, attempted, console, results,
                 startFiles, interrupted, uncaught>>

\* lines 77-85: iter_content yields the next n bytes of the body
Chunk(n) ==
  /\ pc = "streaming"
  /\ n <= Len(resp.body) - resp.pos
  /\ IF n = 0
     THEN /\ resp.empties < MaxEmpty
          /\ resp' = [resp EXCEPT !.empties = @ + 1]
          /\ UNCHANGED files
     ELSE /\ files' = [files EXCEPT ![dest_path] =
                         write(@, SubSeq(resp.body, resp.pos + 1, resp.pos + n))]
          /\ resp' = [resp EXCEPT !.pos = @ + n, !.downloaded = @ + n,
                        !.percents = IF showProgress(resp.total_size) THEN @ + 1 ELSE @]
  /\ UNCHANGED <<nameVars, pc, run, ytAvail, vi, dj, videoFiles, attempted, console,
                 calls, requests, results, startFiles, interrupted, uncaught>>

\* lines 86-89: the body is exhausted, the file closed, the path returned
FileFinish ==
  /\ pc = "streaming"
  /\ resp.pos = Len(resp.body)
  /\ results' = Append(results, Result(dj, "downloaded"))
  /\ Advance
  /\ UNCHANGED <<nameVars, run, ytAvail, vi, files, videoFiles, attempted, console,
                 calls, requests, resp, startFiles, interrupted, uncaught>>

\* line 77: the connection breaks during the transfer
StreamFail ==
  /\ pc = "streaming"
  /\ resp.pos < Len(resp.body)
  /\ Raise("ConnectionError")
  /\ UNCHANGED <<nameVars, run, ytAvail, vi, files, videoFiles, attempted, calls,
                 requests, resp, startFiles, interrupted>>

\* the process is interrupted during the transfer
Interrupt ==
  /\ pc = "streaming"
  /\ pc' = "killed"
  /\ interrupted' = IF files[dest_path] # resp.body
                    THEN interrupted \cup {dest_path} ELSE interrupted
  /\ UNCHANGED <<nameVars, run, ytAvail, vi, dj, files, videoFiles, attempted,
                 console, calls, requests, resp, results, startFiles, uncaught>>

\* the script is run again
Rerun ==
  /\ pc \in {"exited", "crashed", "killed"}
  /\ run < MaxRuns
  /\ run' = run + 1
  /\ startFiles' = files
  /\ pc' = "main"
  /\ vi' = 1
  /\ dj' = 0
  /\ attempted' = << >>
  /\ console' = NoConsole
  /\ calls' = << >>
  /\ requests' = 0
  /\ resp' = NoResp
  /\ results' = << >>
  /\ uncaught' = ""
  /\ UNCHANGED <<nameVars, ytAvail, files, videoFiles, interrupted>>

Next ==
  \/ DownloadVideosUnavailable
  \/ DownloadVideosBegin
  \/ \E outcome \in VideoOutcomes : DownloadVideo(outcome)
  \/ FileSkip
  \/ \E status \in Statuses : FileHTTPError(status)
  \/ FileConnectFail
  \/ \E status \in Statuses, hasLength \in BOOLEAN : FileOpen(status, hasLength)
  \/ \E n \in 0..MaxChunkLen : Chunk(n)
  \/ FileFinish
  \/ StreamFail
  \/ Interrupt
  \/ Rerun

Spec == Init /\ [][Next]_vars

(***************************************************************************)
(* The file name on its own: download_file's lines 63-65 applied to every  *)
(* URL of UrlParts.                                                        *)
(***************************************************************************)
InitName ==
  /\ parts \in { x \in UrlParts : WellFormedParts(x) }
  /\ url = ComposeUrl(parts)
  /\ filename = << >>
  /\ dest_path = << >>
  /\ pc = "name_input"
  /\ run = 1
  /\ ytAvail = FALSE
  /\ files = << >>
  /\ startFiles = << >>
  /\ videoFiles = {}
  /\ interrupted = {}
  /\ vi = 1
  /\ dj = 0
  /\ attempted = << >>
  /\ console = NoConsole
  /\ calls = << >>
  /\ requests = 0
  /\ resp = NoResp
  /\ results = << >>
  /\ uncaught = ""

\* lines 63-65
DeriveName ==
  /\ pc = "name_input"
  /\ filename' = FileName(url)
  /\ dest_path' = DestPath(url, DatasetFolder)
  /\ pc' = "name_done"
  /\ UNCHANGED <<parts, url, run, ytAvail, vi, dj, files, videoFiles, attempted,
                 console, calls, requests, resp, results, startFiles, interrupted,
                 uncaught>>

NextName == DeriveName

SpecName == InitName /\ [][NextName]_vars

(***************************************************************************)
(* Helpers of the properties.                                              *)
(***************************************************************************)
Last(seq) == seq[Len(seq)]

IsPrefix(a, b) == Len(a) <= Len(b) /\ SubSeq(b, 1, Len(a)) = a

PathOf(j) == DestPath(DATASET_URLS[j], DatasetFolder)

\* the call sequence of a complete run of main
ExpectedCalls == <<VideoCall>> \o [j \in 1..NumDatasets |-> FileCall(j)]

RaisedVideos == { k \in 1..Len(attempted) : attempted[k].outcome = "raised" }
CaughtFiles == { k \in 1..Len(results) : results[k].outcome = "HTTPError" }

\* download_videos has returned to main
VideosReturned == dj > 0

\* the last segment of the URL's path as its components spell it, decoded
DecodedLast(x) == [k \in 1..Len(x.last) |-> x.last[k].c]

\* a path into its components, split at '/'
RECURSIVE Components(_)
Components(path) ==
  LET i == Find(path, Ascii.slash, 1) IN
  IF i = 0 THEN <<path>>
  ELSE <<Slice(path, 1, i - 1)>> \o Components(Slice(path, i + 1, Len(path)))

Dot == <<Ascii.dot>>
DotDot == <<Ascii.dot, Ascii.dot>>

\* the components with '.' and empty ones dropped and 'x/..' cancelled
RECURSIVE Normalize(_, _)
Normalize(done, todo) ==
  IF todo = << >> THEN done
  ELSE LET c == Head(todo) IN
       IF c = << >> \/ c = Dot THEN Normalize(done, Tail(todo))
       ELSE IF c = DotDot /\ done # << >> /\ Last(done) # DotDot
            THEN Normalize(SubSeq(done, 1, Len(done) - 1), Tail(todo))
            ELSE Normalize(Append(done, c), Tail(todo))

\* path names a file directly inside the relative directory folder
DirectChild(path, folder) ==
  /\ path # << >>
  /\ path[1] # Ascii.slash
  /\ LET norm == Normalize(<< >>, Components(path)) IN
       /\ Len(norm) = 2
       /\ norm[1] = folder
       /\ norm[2] # DotDot

ErrorStatusCreatesNoFile ==
  [][ (requests' = requests + 1 /\ resp'.status >= 400)
        => /\ files' = files
           /\ results' = Append(results, Result(dj, "HTTPError"))
    ]_vars

\* an error status was answered for a URL with no file
ErrorStatusAnswered ==
  /\ results # << >>
  /\ Last(results).outcome = "HTTPError"
  /\ resp.status = 404
  /\ dest_path \notin DOMAIN files
  /\ pc = "datasets"

(***************************************************************************)
(* C3.  No error is fatal: whatever the outcome of each download,          *)
(* including a network-level failure, main returns normally.               *)
(***************************************************************************)
NoErrorIsFatal == pc # "crashed"

(***************************************************************************)
(* C4.  After an interrupted download has left a partial file, a further   *)
(* run of the script that completes leaves the complete archive in it.     *)
(***************************************************************************)
RerunCompletesPartialFile ==
  (run > 1 /\ pc = "exited")
    => \A j \in 1..NumDatasets :
         PathOf(j) \in interrupted => files[PathOf(j)] = Archive(j)

(***************************************************************************)
(* C5.  main calls download_videos once, with the whole list, before any   *)
(* download_file, then download_file once per dataset URL in list order;   *)
(* only a failure that is not an HTTP-level one ends a run early.          *)
(***************************************************************************)
CallsInOrder ==
  /\ IsPrefix(calls, ExpectedCalls)
  /\ pc = "exited" => calls = ExpectedCalls
  /\ pc = "crashed" => (results # << >> /\ Last(results).outcome = "ConnectionError")

\* a complete run whose first dataset fetch failed with an HTTP error
RunCompletedAfterHTTPError ==
  /\ pc = "exited"
  /\ results[1].outcome = "HTTPError"
  /\ results[NumDatasets].outcome = "downloaded"
  /\ calls = ExpectedCalls

(***************************************************************************)
(* C6.  With yt_dlp available, download_videos attempts every URL once, in *)
(* order; an exception of one URL is caught and logged, the later URLs are *)
(* still attempted and their files produced, and the function returns.     *)
(***************************************************************************)
EveryVideoAttemptedOnce ==
  ytAvail =>
    /\ \A k \in 1..Len(attempted) : attempted[k].v = k
    /\ Len(attempted) = (IF VideosReturned THEN NumVideos
                         ELSE IF pc = "crashed" THEN vi ELSE vi - 1)
    /\ \A k \in 1..Len(attempted) :
         attempted[k].outcome = "saved" => attempted[k].v \in videoFiles
    /\ console.errors = Cardinality(RaisedVideos) + Cardinality(CaughtFiles)
    /\ pc = "crashed" => VideosReturned

\* the first URL raised, the second was saved, and download_videos returned
SecondVideoSavedAfterFailure ==
  /\ ytAvail
  /\ run = 1
  /\ VideosReturned
  /\ attempted[1].outcome = "raised"
  /\ attempted[2].outcome = "saved"
  /\ 2 \in videoFiles
  /\ console.errors = 1

(***************************************************************************)
(* C7.  Without yt_dlp, download_videos returns without raising, attempts  *)
(* no URL, creates no video file and prints one warning and nothing else.  *)
(***************************************************************************)
NoVideoWithoutYtDlp ==
  ~ytAvail =>
    /\ attempted = << >>
    /\ videoFiles = {}
    /\ console.warnings = (IF pc = "main" THEN 0 ELSE 1)
    /\ console.errors = Cardinality(CaughtFiles)
    /\ pc # "videos"
    /\ pc = "crashed" => VideosReturned

\* download_videos has just returned, having only warned
WarnedAndReturned ==
  /\ ~ytAvail
  /\ NumVideos > 0
  /\ pc = "datasets"
  /\ calls = <<VideoCall>>
  /\ console = [warnings |-> 1, errors |-> 0]

(***************************************************************************)
(* C8.  For a response without Content-Length, no percentage line is       *)
(* printed, and when the transfer completes the file equals the body.      *)
(***************************************************************************)
NoLengthNoPercentage ==
  /\ (pc = "streaming" /\ resp.headers = << >>)
       => /\ resp.percents = 0
          /\ files[dest_path] = SubSeq(resp.body, 1, resp.pos)
  /\ (pc \in {"datasets", "exited"} /\ results # << >>
        /\ Last(results).outcome = "downloaded" /\ resp.headers = << >>)
       => /\ resp.percents = 0
          /\ files[dest_path] = resp.body

\* a body of several bytes, delivered with an empty chunk, has been written
BodyWrittenWithoutLength ==
  /\ pc \in {"datasets", "exited"}
  /\ results # << >>
  /\ Last(results).outcome = "downloaded"
  /\ resp.headers = << >>
  /\ resp.empties > 0
  /\ Len(resp.body) >= 2
  /\ files[dest_path] = resp.body

(***************************************************************************)
(* C9.  The file name is the last segment of the URL's path, decoded, the  *)
(* query left out; "downloaded_file" when that segment is empty.           *)
(***************************************************************************)
NameIsDecodedLastSegment ==
  pc = "name_done" =>
    filename = (IF parts.hasPath /\ parts.last # << >>
                THEN DecodedLast(parts) ELSE FallbackName)

\* "https://h/p/n%20n?d" gives "n n"
DecodedNameWithQuery ==
  /\ pc = "name_done"
  /\ parts.dir = <<Ascii.slash, Ascii.p>>
  /\ parts.query = <<Ascii.query, Ascii.d>>
  /\ parts.last = <<[esc |-> FALSE, c |-> Ascii.n], [esc |-> TRUE, c |-> Ascii.space],
                    [esc |-> FALSE, c |-> Ascii.n]>>
  /\ filename = <<Ascii.n, Ascii.space, Ascii.n>>

(***************************************************************************)
(* C10.  For every URL the file name holds no '/' and is not '..', and the *)
(* destination path is a direct child of the destination folder.           *)
(***************************************************************************)
NameStaysInFolder ==
  pc = "name_done" =>
    /\ Find(filename, Ascii.slash, 1) = 0
    /\ filename # DotDot
    /\ DirectChild(dest_path, DatasetFolder)

====
